---------------------------- MODULE Spec2Model ----------------------------
(***************************************************************************)
(* A model of src/pendulum.py: the synthetic pendulum data generator       *)
(* pendulum_train_gen (trajectory sampling, gap shift, shuffle, noise and  *)
(* the vectorised rasteriser), the two dataset wrappers built on it, and   *)
(* the seeding done by main; and of info_nce, most_recent_file,            *)
(* LRScheduler and the training, supervised and analysis loops.            *)
(*                                                                         *)
(* Numbers.  Energies k in [0,1) are integers in units of 1/EnergyDen.     *)
(* Angles are integers in degrees, multiples of AngleStep; cos and sin are *)
(* read from a table in thousandths.  An array is a function over its      *)
(* index tuples, 0-based as in the source.                                 *)
(***************************************************************************)
EXTENDS Integers, Sequences, FiniteSets, TLC

VARIABLES
    pc,         \* position in pendulum_train_gen / its caller
    args,       \* the arguments of the running pendulum_train_gen call
    rng,        \* the entropy np.random.default_rng() seeded the call's Generator from
    k2,         \* energies, one per trajectory (array of shape (B,1[,1]))
    q,          \* angles: (B,T) in numerical mode, (B,T,2) in image mode
    p,          \* angular momenta (numerical mode), shape (B,T)
    data,       \* numerical mode: np.stack((q, p), axis=-1), shape (B,T,2)
    idx_final,  \* image mode: the flattened index tensor, a sequence of 5-tuples
    pxls,       \* image mode: the image array
    ret,        \* what the call returned or raised
    ds,         \* the dataset object under construction or in use
    item,       \* what the last __getitem__ returned or raised
    seed,       \* the seed of random, np.random and torch (set_deterministic)
    runs,       \* the earlier runs of the program: seed, arguments and result
    nce,        \* the running info_nce call: its inputs, locals and result
    walk,       \* the running most_recent_file call: its inputs, locals and result
    fs,         \* the checkpoint directory: the files in it and what they hold
    sched,      \* the LRScheduler object: lr_schedule, iter and current_lr
    optimizer,  \* the optimizer: the lr of each of its param_groups
    loop,       \* the running training_loop / supervised_loop call
    an          \* the running analysis_loop call

genvars == <<pc, args, rng, k2, q, p, data, idx_final, pxls, ret>>
\* the state outside pendulum_train_gen
host == <<nce, walk, fs, sched, optimizer, loop, an>>
outer == <<ds, item, seed, runs, host>>
vars == <<genvars, outer>>

-----------------------------------------------------------------------------
(* Bounds of the model *)

\* energies are multiples of 1/(3*EnergyRes), so that 1/3 and 2/3 are exact
EnergyRes == 2
MaxBatch == 2
MaxTraj == 2
\* at most this many trajectory samples (B*T) in one call
MaxCells == 2
MinImgSize == 5
MaxImgSize == 8
MaxBobSize == 2

EnergyDen == 3 * EnergyRes
Energies == 0 .. (EnergyDen - 1)

-----------------------------------------------------------------------------
(* Arithmetic helpers *)

\* np.floor(n/d) for d > 0
Floor(n, d) == n \div d

\* np.round(n/d) for d > 0: round half to even
Round(n, d) ==
    LET f == n \div d
        r == n - f * d
    IN  IF 2 * r < d THEN f
        ELSE IF 2 * r > d THEN f + 1
        ELSE IF f % 2 = 0 THEN f ELSE f + 1

\* cos of a multiple of 30 degrees, in thousandths
CosTable == <<1000, 866, 500, 0, -500, -866, -1000, -866, -500, 0, 500, 866>>
AngleStep == 360 \div Len(CosTable)
CosMilli(deg) == CosTable[((deg % 360) \div AngleStep) + 1]
SinMilli(deg) == CosMilli(deg - 90)

-----------------------------------------------------------------------------
(* Arrays and index sets *)

Cells(B, T) == (0 .. (B - 1)) \X (0 .. (T - 1))
Views(B, T) == (0 .. (B - 1)) \X (0 .. (T - 1)) \X {0, 1}

\* Random arrays are enumerated over their first MaxCells samples in
\* row-major order; the later samples of a larger batch hold the value rest
Varying(cells) ==
    LET T == Cardinality({c[2] : c \in cells})
    IN  {c \in cells : c[1] * T + c[2] < MaxCells}
RandomArrays(cells, S, rest) ==
    LET V == Varying(cells)
    IN  {[c \in cells |-> IF c \in V THEN g[c] ELSE rest] : g \in [V -> S]}

\* the rows of a trajectory that a shuffle is taken to move
Window == MaxTraj

\* the permutations of 0 .. T-1 that rng.shuffle is taken to draw: those that
\* move only the first Window rows
Perms(T) ==
    LET W == IF T < Window THEN T ELSE Window
    IN  {[i \in 0 .. (T - 1) |-> IF i < W THEN f[i] ELSE i] :
            f \in {g \in [0 .. (W - 1) -> 0 .. (W - 1)] :
                      \A i, j \in 0 .. (W - 1) : g[i] = g[j] => i = j}}

-----------------------------------------------------------------------------
(* The exact pendulum solution, lines 160-162 and 195-196 *)

\* q = 2*arcsin(sqrt(k)*sn(t,k)): as t varies sn covers [-1,1], so q covers
\* exactly the angles with (1 - cos q)/2 <= k, |q| < 180 degrees
Feasible(deg, k) ==
    /\ -180 < deg /\ deg < 180
    /\ EnergyDen * (1000 - CosMilli(deg)) <= 2000 * k

\* p = 2*sqrt(k)*cn*dn/sqrt(1 - k*sn^2): p^2 = 4k - 2(1 - cos q), with the
\* sign of cn; sq is p^2 in units of 1/(1000*EnergyDen)
Momentum(deg, k, sgn) ==
    LET sq == 4000 * k - 2 * EnergyDen * (1000 - CosMilli(deg))
    IN  [sgn |-> IF sq = 0 THEN 1 ELSE sgn, sq |-> sq, dn |-> 0]

\* H = 0.5*p^2 - cos(q) + 1, in units of 1/(1000*EnergyDen), doubled
TwiceH(deg, mom) == mom.sq + 2 * EnergyDen * (1000 - CosMilli(deg))

-----------------------------------------------------------------------------
(* pendulum_train_gen *)

NoArray == <<>>
\* an optional value: None is the empty tuple, a value x is <<x>>
None == <<>>
Some(x) == <<x>>

\* the gap shift without the parity test: every energy from 1/3 up is shifted
GapShiftNoParity(k) == IF Floor(3 * k, EnergyDen) >= 1 THEN k - EnergyRes ELSE k

\* the gap shift of lines 185-188: floor(3k) odd -> k - 1/3
GapShift(k) == IF Floor(3 * k, EnergyDen) % 2 = 1 THEN k - EnergyRes ELSE k

\* "if k2" in place of "k2 is None": the energy 0 counts as not given
FixedEnergyTruthy(a) == a.k2 # None /\ a.k2[1] # 0

\* line 158 / 184: the energies are drawn unless a fixed energy is given
FixedEnergy(a) == a.k2 # None

Init ==
    /\ pc = "idle"
    /\ args = None
    /\ k2 = NoArray
    /\ q = NoArray
    /\ p = NoArray
    /\ data = NoArray
    /\ idx_final = <<>>
    /\ pxls = NoArray
    /\ ret = [kind |-> "pending"]
    /\ rng = None
    /\ ds = [kind |-> "none"]
    /\ item = [kind |-> "none"]
    /\ seed = None
    /\ runs = <<>>
    /\ nce = [pc |-> "idle"]
    /\ walk = [pc |-> "idle"]
    /\ fs = <<>>
    /\ sched = [kind |-> "none"]
    /\ optimizer = [kind |-> "none"]
    /\ loop = [pc |-> "idle"]
    /\ an = [pc |-> "idle"]

\* a call pendulum_train_gen(**a), up to line 154: the Generator is seeded
\* from fresh entropy of the operating system, whatever the global seed
Call(ArgSpace, Entropy) ==
    /\ pc = "idle"
    /\ \E a \in ArgSpace : args' = a
    /\ \E e \in Entropy : rng' = Some(e)
    /\ pc' = "gen"
    /\ UNCHANGED <<k2, q, p, data, idx_final, pxls, ret>>
    /\ UNCHANGED outer

\* lines 156-163: numerical mode, sampling
SampleNumerical(KOne, KMany, QS, Signs) ==
    /\ pc = "gen"
    /\ ~args.image
    /\ LET B == args.batch_size
           T == args.traj_samples
       IN  \E kv \in (IF FixedEnergy(args) THEN {[b \in 0 .. (B - 1) |-> args.k2[1]]}
                      ELSE [0 .. (B - 1) -> IF B = 1 THEN KOne ELSE KMany]) :
           \E qa \in RandomArrays(Cells(B, T), QS, 0) :
           \E sa \in RandomArrays(Cells(B, T), Signs, 1) :
              /\ \A c \in Cells(B, T) : Feasible(qa[c], kv[c[1]])
              /\ k2' = [shape |-> <<B, 1>>, v |-> kv]
              /\ q' = qa
              /\ p' = [c \in Cells(B, T) |-> Momentum(qa[c], kv[c[1]], sa[c])]
              /\ data' = [c \in Cells(B, T) |->
                            <<qa[c], Momentum(qa[c], kv[c[1]], sa[c])>>]
    /\ pc' = "shuffle"
    /\ UNCHANGED <<outer, rng, args, idx_final, pxls, ret>>

\* lines 181-184: image mode, drawing the energies (the time steps t and
\* t + diff_time are drawn here too; they show in the angles of line 196)
SampleImage(KOne, KMany) ==
    /\ pc = "gen"
    /\ args.image /\ ~args.blur
    /\ LET B == args.batch_size
       IN  \E kr \in (IF FixedEnergy(args) THEN {[b \in 0 .. (B - 1) |-> args.k2[1]]}
                      ELSE [0 .. (B - 1) -> IF B = 1 THEN KOne ELSE KMany]) :
              k2' = [shape |-> <<B, 1, 1>>, v |-> kr]
    /\ pc' = "gaps"
    /\ UNCHANGED <<outer, rng, args, q, p, data, idx_final, pxls, ret>>

\* lines 185-188: the gap loop shifts the flagged energies in place
Gaps ==
    /\ pc = "gaps"
    /\ k2' = IF args.gaps
             THEN [k2 EXCEPT !.v = [b \in DOMAIN k2.v |-> GapShift(k2.v[b])]]
             ELSE k2
    /\ pc' = "angles"
    /\ UNCHANGED <<outer, rng, args, q, p, data, idx_final, pxls, ret>>

\* lines 195-196: the angles of the two views, from the energies as they are now
Angles(QOne, QMany) ==
    /\ pc = "angles"
    /\ LET B == args.batch_size
           T == args.traj_samples
       IN  \E qa \in RandomArrays(Views(B, T),
                                   IF B * T = 1 THEN QOne ELSE QMany, 0) :
              /\ \A c \in Views(B, T) : Feasible(qa[c], k2.v[c[1]])
              /\ q' = qa
    /\ pc' = "shuffle"
    /\ UNCHANGED <<outer, rng, args, k2, p, data, idx_final, pxls, ret>>

\* image and blur: neither branch of lines 156 / 180 is taken and the
\* function falls off its end
FallThrough ==
    /\ pc = "gen"
    /\ args.image /\ args.blur
    /\ ret' = [kind |-> "None"]
    /\ pc' = "done"
    /\ UNCHANGED <<outer, rng, args, k2, q, p, data, idx_final, pxls>>

\* rng.shuffle over the batch axis: whole trajectories change places
ShuffleBatch(arr, sigma) ==
    LET B == Cardinality({c[1] : c \in DOMAIN arr})
    IN  [c \in DOMAIN arr |->
            arr[IF Len(c) = 2 THEN <<B - 1 - c[1], c[2]>>
                ELSE <<B - 1 - c[1], c[2], c[3]>>]]

\* lines 165-167 and 201-203: for x in data: rng.shuffle(x, axis=0)
\* each trajectory's rows are permuted in place, a row being one sample
ShuffleRows(arr, sigma) ==
    [c \in DOMAIN arr |->
        arr[IF Len(c) = 2 THEN <<c[1], sigma[c[1]][c[2]]>>
            ELSE <<c[1], sigma[c[1]][c[2]], c[3]>>]]

Shuffle ==
    /\ pc = "shuffle"
    /\ LET B == args.batch_size
           T == args.traj_samples
       IN  IF args.shuffle
           THEN \E sigma \in [0 .. (B - 1) -> Perms(T)] :
                   IF args.image
                   THEN q' = ShuffleRows(q, sigma) /\ data' = data
                   ELSE data' = ShuffleRows(data, sigma) /\ q' = q
           ELSE UNCHANGED <<q, data>>
    /\ pc' = IF args.image THEN "noise" ELSE "check"
    /\ UNCHANGED <<outer, rng, args, k2, p, idx_final, pxls, ret>>

\* lines 169-173: the energy self-check, on q and p as computed
EnergyConserved ==
    \A c \in DOMAIN q : TwiceH(q[c], p[c]) = 4000 * k2.v[c[1]]

CheckEnergy ==
    /\ pc = "check"
    /\ IF args.check_energy /\ ~EnergyConserved
       THEN /\ ret' = [kind |-> "raise", exc |-> "AssertionError"]
            /\ pc' = "done"
       ELSE /\ ret' = ret
            /\ pc' = "noise"
    /\ UNCHANGED <<outer, rng, args, k2, q, p, data, idx_final, pxls>>

\* lines 175-176 and 205-206: additive Gaussian noise; a draw n of
\* standard_normal moves an angle by noise*n steps of the angle table
AddNoise(NoiseDraws) ==
    /\ pc = "noise"
    /\ IF args.noise > 0
       THEN IF args.image
            THEN /\ \E n \in RandomArrays(DOMAIN q, NoiseDraws, 0) :
                      q' = [c \in DOMAIN q |-> q[c] + args.noise * n[c] * AngleStep]
                 /\ data' = data
            ELSE /\ \E n \in RandomArrays(DOMAIN data, NoiseDraws \X NoiseDraws,
                                            <<0, 0>>) :
                      data' = [c \in DOMAIN data |->
                                 <<data[c][1] + args.noise * n[c][1] * AngleStep,
                                   [data[c][2] EXCEPT !.dn = args.noise * n[c][2]]>>]
                 /\ q' = q
       ELSE UNCHANGED <<q, data>>
    /\ pc' = IF args.image THEN "raster" ELSE "return"
    /\ UNCHANGED <<outer, rng, args, k2, p, idx_final, pxls, ret>>

\* line 178: return k2, data
ReturnNumerical ==
    /\ pc = "return"
    /\ ret' = [kind |-> "batch", k2 |-> k2,
               data |-> [shape |-> <<args.batch_size, args.traj_samples, 2>>,
                         v |-> data]]
    /\ pc' = "done"
    /\ UNCHANGED <<outer, rng, args, k2, q, p, data, idx_final, pxls>>

-----------------------------------------------------------------------------
(* The rasteriser, lines 190-193 and 209-256 *)

\* lines 190-191
Center(a) == a.img_size \div 2

\* the string length without the margin of 2
StrLenNoMargin(a) == a.img_size - a.img_size \div 2 - a.bob_size

\* line 192
StrLen(a) == a.img_size - 2 - a.img_size \div 2 - a.bob_size
BobSide(a) == 2 * a.bob_size + 1
BobArea(a) == BobSide(a) * BobSide(a)

\* lines 213-214: the bob's centre for one angle
EndX(a, deg) == Center(a) + Round(CosMilli(deg) * StrLen(a), 1000)
EndY(a, deg) == Center(a) + Round(SinMilli(deg) * StrLen(a), 1000)

\* the two components of np.indices taken in the wrong order
IdxArrSwapped(r, b, t) == IF r = 0 THEN t ELSE b

\* lines 216-217: idx = np.indices((B, T)); component 0 is b, component 1 is t
IdxArr(r, b, t) == IF r = 0 THEN b ELSE t

\* lines 219-221: bob_idx[j, i, c] = np.indices((S, S))[c, i, j] - bob_size
BobIdx(a, j, i, c) == (IF c = 0 THEN i ELSE j) - a.bob_size

\* lines 223-226: pos[o, c, b, t, v], o = j*S + i after the reshape
PosArr(a, qa, o, c, b, t, v) ==
    (IF c = 0 THEN EndX(a, qa[<<b, t, v>>]) ELSE EndY(a, qa[<<b, t, v>>]))
        + BobIdx(a, o \div BobSide(a), o % BobSide(a), c)

\* both views written to the same two channels
ChanArrOneTone(m, v) == IF m = 0 THEN 1 ELSE 0

\* line 228: c[m, v]
ChanTable == <<<<1, 1>>, <<0, 2>>>>
ChanArr(m, v) == ChanTable[m + 1][v + 1]

\* lines 230-232: one index tuple (b, t, x, y, channel) of idx_final[m, o, :, b, t, v]
IdxTuple(a, qa, m, o, b, t, v) ==
    <<IdxArr(0, b, t), IdxArr(1, b, t),
      PosArr(a, qa, o, 0, b, t, v), PosArr(a, qa, o, 1, b, t, v),
      ChanArr(m, v)>>

\* lines 236-238: swapaxes(0, 2) and reshape to (5, N): column n is the tuple
\* at (o, m, b, t, v) in row-major order
IdxFinal(a, qa) ==
    LET B == a.batch_size
        T == a.traj_samples
        N == 4 * B * T * BobArea(a)
    IN  [n \in 1 .. N |->
            LET n0 == n - 1
                v == n0 % 2
                t == (n0 \div 2) % T
                b == (n0 \div (2 * T)) % B
                m == (n0 \div (2 * T * B)) % 2
                o == n0 \div (4 * T * B)
            IN  IdxTuple(a, qa, m, o, b, t, v)]

\* numpy's integer indexing along an axis of length dim
InBounds(i, dim) == -dim <= i /\ i < dim
Wrap(i, dim) == IF i < 0 THEN i + dim ELSE i

\* line 242: every index of the scatter is inside its axis
ScatterOk(a, cols) ==
    \A n \in DOMAIN cols :
        InBounds(cols[n][3], a.img_size) /\ InBounds(cols[n][4], a.img_size)

\* line 242: the cells set to 0
Scatter(a, cols) ==
    {<<cols[n][1], cols[n][2], Wrap(cols[n][3], a.img_size),
       Wrap(cols[n][4], a.img_size), cols[n][5]>> : n \in DOMAIN cols}

\* line 209: an array of ones is the array with no zero cell
Ones(shape) == [shape |-> shape, zero |-> {}]
At(arr, i) == IF i \in arr.zero THEN 0 ELSE 1

\* line 255: np.swapaxes(pxls, 4, 2)
SwapAxes42(arr) ==
    [shape |-> <<arr.shape[1], arr.shape[2], arr.shape[5], arr.shape[4], arr.shape[3]>>,
     zero |-> {<<i[1], i[2], i[5], i[4], i[3]>> : i \in arr.zero}]

Rasterize ==
    /\ pc = "raster"
    /\ LET B == args.batch_size
           T == args.traj_samples
           blank == Ones(<<B, T, args.img_size, args.img_size, 3>>)
       IN  /\ idx_final' = IdxFinal(args, q)
           /\ IF ScatterOk(args, idx_final')
              THEN /\ pxls' = [blank EXCEPT !.zero = Scatter(args, idx_final')]
                   /\ ret' = [kind |-> "batch",
                              k2 |-> [shape |-> <<B, 1>>, v |-> k2.v],
                              data |-> SwapAxes42(pxls')]
              ELSE /\ pxls' = blank
                   /\ ret' = [kind |-> "raise", exc |-> "IndexError"]
    /\ pc' = "done"
    /\ UNCHANGED <<outer, rng, args, k2, q, p, data>>

-----------------------------------------------------------------------------
(* Argument spaces and the domains of the random draws *)

\* the defaults of pendulum_train_gen's signature, lines 133-135
DefaultTrajSamples == 10
DefaultArgs ==
    [batch_size |-> 1, traj_samples |-> DefaultTrajSamples, noise |-> 0, shuffle |-> TRUE,
     check_energy |-> FALSE, k2 |-> None, image |-> TRUE, gaps |-> FALSE,
     blur |-> FALSE, img_size |-> 32, bob_size |-> 1]

Shapes == {s \in (1 .. MaxBatch) \X (1 .. MaxTraj) : s[1] * s[2] <= MaxCells}

\* all angles of the table in (-180, 180), and a coarse subset
AnglesFine == {d * AngleStep : d \in -5 .. 5}
AnglesCoarse == {0, 90}

\* quantised standard_normal draws
NoiseDraws == {-1, 0, 1}

\* the one stream of the specifications that let every draw range over a set
OneStream == {0}

\* the energies at the two ends of the range, and with 1/3
EnergyEnds == {0, EnergyDen - 1}
EnergySome == {0, EnergyRes, EnergyDen - 1}

-----------------------------------------------------------------------------
(* Specification of the rasteriser: image mode over image and bob sizes *)

ImgSizes == MinImgSize .. MaxImgSize
BobSizes == 0 .. MaxBobSize

\* noise is added to single images only
ArgsRasterNoisy ==
    {[DefaultArgs EXCEPT !.batch_size = s[1], !.traj_samples = s[2],
                         !.noise = 1, !.k2 = k, !.img_size = i, !.bob_size = bs] :
        s \in Shapes, k \in {None, Some(0)}, i \in ImgSizes, bs \in BobSizes}

ArgsRaster ==
    {[DefaultArgs EXCEPT !.batch_size = s[1], !.traj_samples = s[2],
                         !.noise = n, !.k2 = k, !.img_size = i, !.bob_size = bs] :
        s \in Shapes, n \in {0, 1}, k \in {None, Some(0)}, i \in ImgSizes, bs \in BobSizes}
    \ {a \in ArgsRasterNoisy : a.batch_size * a.traj_samples > 1}

NextRaster ==
    \/ Call(ArgsRaster, OneStream)
    \/ SampleImage(EnergyEnds, EnergyEnds)
    \/ Gaps
    \/ Angles(AnglesFine, AnglesCoarse)
    \/ Shuffle
    \/ AddNoise(NoiseDraws)
    \/ Rasterize

SpecRaster == Init /\ [][NextRaster]_vars

-----------------------------------------------------------------------------
(* Properties of the rasteriser *)

ImageDone == pc = "done" /\ args.image /\ ~args.blur
ImageReturned == ImageDone /\ ret.kind = "batch"

\* the square of side 2*bob_size+1 centred at the bob of angle deg
BobSquare(a, deg) ==
    {<<EndX(a, deg) + dx, EndY(a, deg) + dy>> :
        dx \in -a.bob_size .. a.bob_size, dy \in -a.bob_size .. a.bob_size}

\* the same square as locations of the image array
BobCells(a, deg) ==
    {<<Wrap(xy[1], a.img_size), Wrap(xy[2], a.img_size)>> : xy \in BobSquare(a, deg)}

\* the three channel values of the returned image at a location
Colour(b, t, x, y) == [c \in 0 .. 2 |-> At(ret.data, <<b, t, c, y, x>>)]

DarkChannels(b, t, x, y) == {c \in 0 .. 2 : Colour(b, t, x, y)[c] = 0}

InView(b, t, v, x, y) == <<x, y>> \in BobCells(args, q[<<b, t, v>>])

\* C3 as stated: every location of a bob square has exactly two channels at 0
\* and the third at 1, also where the two views' squares overlap, and every
\* other location has 1 in all three channels
C3_TwoChannelsEverywhere ==
    ImageReturned =>
        \A c \in Cells(args.batch_size, args.traj_samples) :
            LET s0 == BobCells(args, q[<<c[1], c[2], 0>>])
                s1 == BobCells(args, q[<<c[1], c[2], 1>>])
            IN  \A x, y \in 0 .. (args.img_size - 1) :
                    IF <<x, y>> \in s0 \cup s1
                    THEN Cardinality(DarkChannels(c[1], c[2], x, y)) = 2
                    ELSE DarkChannels(c[1], c[2], x, y) = {}

\* C3 amended: a location covered by the square of one view only has exactly
\* two channels at 0 (channels 0 and 1 for the view at t, channels 1 and 2 for
\* the view at t + diff_time) and the third at 1; a location covered by the
\* squares of both views has all three channels at 0; every other location
\* has 1 in all three channels
C3_ChannelsPerView ==
    ImageReturned =>
        \A c \in Cells(args.batch_size, args.traj_samples) :
            LET s0 == BobCells(args, q[<<c[1], c[2], 0>>])
                s1 == BobCells(args, q[<<c[1], c[2], 1>>])
            IN  \A x, y \in 0 .. (args.img_size - 1) :
                    DarkChannels(c[1], c[2], x, y) =
                        (IF <<x, y>> \in s0 THEN {0, 1} ELSE {})
                            \cup (IF <<x, y>> \in s1 THEN {1, 2} ELSE {})

\* an image in which the two squares overlap in part: some location is
\* covered by both views and some by one only
C3_Witness ==
    /\ ImageReturned
    /\ args.bob_size > 0
    /\ \E x, y \in 0 .. (args.img_size - 1) :
          InView(0, 0, 0, x, y) /\ InView(0, 0, 1, x, y)
    /\ \E x, y \in 0 .. (args.img_size - 1) :
          InView(0, 0, 0, x, y) /\ ~InView(0, 0, 1, x, y)

\* C4: when str_len >= 0 every coordinate the rasteriser writes lies in
\* [0, img_size) on both axes, the scatter succeeds, and every
\* trajectory-view has written pixels
C4_WritesInBounds ==
    (ImageDone /\ StrLen(args) >= 0) =>
        /\ \A n \in DOMAIN idx_final :
              /\ 0 <= idx_final[n][3] /\ idx_final[n][3] < args.img_size
              /\ 0 <= idx_final[n][4] /\ idx_final[n][4] < args.img_size
        /\ ret.kind = "batch"
        /\ \A c \in Views(args.batch_size, args.traj_samples) :
              \E i \in pxls.zero :
                  /\ i[1] = c[1] /\ i[2] = c[2]
                  /\ i[5] = (IF c[3] = 0 THEN 0 ELSE 2)

\* a bob drawn at the far edge the string length allows
C4_Witness ==
    /\ ImageDone
    /\ StrLen(args) > 0 /\ args.bob_size > 0
    /\ \E n \in DOMAIN idx_final : idx_final[n][3] = args.img_size - 2
    /\ \E n \in DOMAIN idx_final : idx_final[n][4] = 2 - (args.img_size % 2)

\* the index tuples of one trajectory sample and one channel
TuplesOf(b, t, ch) ==
    {n \in DOMAIN idx_final :
        idx_final[n][1] = b /\ idx_final[n][2] = t /\ idx_final[n][5] = ch}

Locations(ns) == {<<idx_final[n][3], idx_final[n][4]>> : n \in ns}

\* C5: idx_final holds 4*B*T*(2*bob_size+1)^2 tuples; for each (b, t, view)
\* the locations addressed with b and t are exactly the bob square of
\* q[b,t,view], each once per channel of that view (channels 0 and 1 for the
\* first view, 1 and 2 for the second)
C5_OneSquarePerView ==
    ImageDone =>
        /\ Len(idx_final) =
              4 * args.batch_size * args.traj_samples * BobArea(args)
        /\ \A n \in DOMAIN idx_final :
              <<idx_final[n][1], idx_final[n][2]>>
                  \in Cells(args.batch_size, args.traj_samples)
        /\ \A c \in Cells(args.batch_size, args.traj_samples) :
              LET s0 == BobSquare(args, q[<<c[1], c[2], 0>>])
                  s1 == BobSquare(args, q[<<c[1], c[2], 1>>])
              IN  /\ Locations(TuplesOf(c[1], c[2], 0)) = s0
                  /\ Locations(TuplesOf(c[1], c[2], 2)) = s1
                  /\ Locations(TuplesOf(c[1], c[2], 1)) = s0 \cup s1
                  /\ Cardinality(TuplesOf(c[1], c[2], 0)) = BobArea(args)
                  /\ Cardinality(TuplesOf(c[1], c[2], 2)) = BobArea(args)
                  /\ Cardinality(TuplesOf(c[1], c[2], 1)) = 2 * BobArea(args)

\* two trajectory samples whose bobs are at different places
C5_Witness ==
    /\ ImageDone
    /\ args.bob_size > 0
    /\ \E c, d \in Cells(args.batch_size, args.traj_samples) :
          /\ c # d
          /\ BobSquare(args, q[<<c[1], c[2], 0>>])
                # BobSquare(args, q[<<d[1], d[2], 0>>])

\* C13 as stated: a call that computes a bob coordinate outside [0, img_size)
\* raises, and no returned image was written at a coordinate below 0, which
\* the array takes as counted from its far end
C13_NoWrappedWrite ==
    ImageDone =>
        /\ (\E n \in DOMAIN idx_final :
               \/ idx_final[n][3] < 0 \/ idx_final[n][3] >= args.img_size
               \/ idx_final[n][4] < 0 \/ idx_final[n][4] >= args.img_size)
              => ret.kind = "raise"
        /\ ret.kind = "batch" =>
              \A n \in DOMAIN idx_final :
                  idx_final[n][3] >= 0 /\ idx_final[n][4] >= 0

-----------------------------------------------------------------------------
(* Specification of the generator: every mode and flag, default image size *)

\* a single quantised standard_normal draw
NoiseOne == {1}

\* calls that set a flag their mode never reads: blur in numerical mode,
\* check_energy in image mode
ArgsUnread ==
    {[DefaultArgs EXCEPT !.batch_size = s[1], !.traj_samples = s[2],
                         !.noise = n, !.shuffle = sh, !.check_energy = im,
                         !.k2 = k, !.image = im, !.gaps = g, !.blur = ~im] :
        s \in Shapes, n \in {0, 1}, sh \in BOOLEAN,
        k \in {None} \cup {Some(e) : e \in Energies},
        im \in BOOLEAN, g \in BOOLEAN}

\* every combination of the flags for a single sample; for several samples
\* every combination of the flags the mode reads
ArgsGen ==
    {[DefaultArgs EXCEPT !.batch_size = s[1], !.traj_samples = s[2],
                         !.noise = n, !.shuffle = sh, !.check_energy = ce,
                         !.k2 = k, !.image = im, !.gaps = g, !.blur = bl] :
        s \in Shapes, n \in {0, 1}, sh \in BOOLEAN, ce \in BOOLEAN,
        k \in {None} \cup {Some(e) : e \in Energies},
        im \in BOOLEAN, g \in BOOLEAN, bl \in BOOLEAN}
    \ {a \in ArgsUnread : a.batch_size * a.traj_samples > 1}

Next ==
    \/ Call(ArgsGen, OneStream)
    \/ SampleNumerical(Energies, EnergySome, AnglesCoarse, {-1, 1})
    \/ SampleImage(Energies, EnergySome)
    \/ Gaps
    \/ Angles(AnglesCoarse, AnglesCoarse)
    \/ FallThrough
    \/ Shuffle
    \/ CheckEnergy
    \/ AddNoise(NoiseOne)
    \/ ReturnNumerical
    \/ Rasterize

Spec == Init /\ [][Next]_vars

-----------------------------------------------------------------------------
(* Properties of the generator *)

Returned == pc = "done" /\ ret.kind = "batch"

\* k in [1/3, 2/3)
MiddleThird(k) == EnergyRes <= k /\ k < 2 * EnergyRes

\* C6: image mode with gaps: the gap loop turns every energy k in [1/3, 2/3)
\* into k - 1/3 and leaves the others; every returned energy lies in [0, 1/3)
\* or [2/3, 1); and the angles are computed from the shifted energies, which
\* are the ones returned
C6_GapShift ==
    /\ [][(pc = "gaps" /\ args.gaps) =>
            \A b \in DOMAIN k2.v :
                k2'.v[b] = IF MiddleThird(k2.v[b]) THEN k2.v[b] - EnergyRes
                           ELSE k2.v[b]]_vars
    /\ []((ImageReturned /\ args.gaps) =>
            \A b \in DOMAIN ret.k2.v :
                /\ 0 <= ret.k2.v[b] /\ ret.k2.v[b] < EnergyDen
                /\ ~MiddleThird(ret.k2.v[b]))
    /\ []((pc = "shuffle" /\ args.image /\ args.gaps) =>
            \A c \in DOMAIN q : Feasible(q[c], k2.v[c[1]]))
    /\ []((ImageReturned /\ args.gaps) => ret.k2.v = k2.v)

\* a batch returned for a fixed energy in [1/3, 2/3), shifted
C6_Witness ==
    /\ ImageReturned /\ args.gaps
    /\ args.k2 # None /\ MiddleThird(args.k2[1])
    /\ ret.k2.v[0] = args.k2[1] - EnergyRes

\* C7 as stated: with a fixed energy the returned energy vector has shape
\* (batch_size, 1) and every entry equals the fixed energy, whatever the
\* other parameters
C7_FixedEnergyReturned ==
    (Returned /\ args.k2 # None) =>
        /\ ret.k2.shape = <<args.batch_size, 1>>
        /\ \A b \in 0 .. (args.batch_size - 1) : ret.k2.v[b] = args.k2[1]

\* C7 amended: with a fixed energy k2 the returned energy vector has shape
\* (batch_size, 1); every entry equals k2, except in image mode with gaps
\* enabled and k2 in [1/3, 2/3), where every entry equals k2 - 1/3
C7_FixedEnergyOrShifted ==
    (Returned /\ args.k2 # None) =>
        /\ ret.k2.shape = <<args.batch_size, 1>>
        /\ DOMAIN ret.k2.v = 0 .. (args.batch_size - 1)
        /\ \A b \in 0 .. (args.batch_size - 1) :
              ret.k2.v[b] =
                  IF args.image /\ args.gaps /\ MiddleThird(args.k2[1])
                  THEN args.k2[1] - EnergyRes
                  ELSE args.k2[1]

\* a batch of two trajectories returned for the fixed energy 0
C7_Witness ==
    /\ Returned
    /\ args.k2 = Some(0)
    /\ args.batch_size = 2
    /\ ret.k2.v[1] = 0

\* C8 as stated: a finished call has returned a batch or raised
C8_BatchOrError == pc = "done" => ret.kind \in {"batch", "raise"}

\* the rows of one trajectory: a row is one sample, an (angle, momentum) pair
\* in numerical mode, the pair of views in image mode
SampleRow(arr, b, t) ==
    IF args.image THEN <<arr[<<b, t, 0>>], arr[<<b, t, 1>>]>> ELSE arr[<<b, t>>]

RowCount(arr, b, r) ==
    Cardinality({t \in 0 .. (args.traj_samples - 1) : SampleRow(arr, b, t) = r})

Shuffled(qq, dd) == IF args.image THEN qq ELSE dd

\* C9: the shuffle leaves, for every trajectory b, the multiset of the samples
\* of b as it was, every sample whole, and the energies where they were
C9_ShuffleWithinTrajectory ==
    [][(pc = "shuffle" /\ args.shuffle) =>
          /\ k2' = k2
          /\ \A c \in Cells(args.batch_size, args.traj_samples) :
                LET r == SampleRow(Shuffled(q, data), c[1], c[2])
                IN  RowCount(Shuffled(q', data'), c[1], r)
                        = RowCount(Shuffled(q, data), c[1], r)]_vars

\* a numerical trajectory whose two different samples have changed places
C9_Witness ==
    /\ pc = "check"
    /\ args.shuffle /\ args.traj_samples = 2
    /\ data[<<0, 0>>] = <<q[<<0, 1>>], p[<<0, 1>>]>>
    /\ data[<<0, 1>>] = <<q[<<0, 0>>], p[<<0, 0>>]>>
    /\ data[<<0, 0>>] # data[<<0, 1>>]

-----------------------------------------------------------------------------
(* The dataset wrappers, lines 259-307 *)

\* the label read from the other end of the energy vector
LabelMirrored(d, idx) == d.k2.v[d.size - 1 - idx]

\* lines 273 and 279 (298 and 304): self.k2[idx]
Label(d, idx) == d.k2.v[idx]

\* line 262: pendulum_train_gen(size, noise=noise, image=False)
NumericalCall(size, noise) ==
    [DefaultArgs EXCEPT !.batch_size = size, !.noise = noise, !.image = FALSE]

\* line 287: pendulum_train_gen(size, noise=noise,
\*                              traj_samples=trajectory_length, gaps=gaps)
ImageCall(size, trajectory_length, gaps, noise) ==
    [DefaultArgs EXCEPT !.batch_size = size, !.noise = noise,
                        !.traj_samples = trajectory_length, !.gaps = gaps]

\* PendulumNumericalDataset.__init__ up to its generator call; call holds the
\* arguments of that call, trajectory_length the parameter line 263 stores
NumericalInit(SizeSpace, LengthSpace, NoiseSpace) ==
    /\ pc = "idle" /\ ds.kind = "none"
    /\ \E size \in SizeSpace, tl \in LengthSpace, noise \in NoiseSpace :
          ds' = [kind |-> "PendulumNumericalDataset", size |-> size,
                 trajectory_length |-> tl, call |-> NumericalCall(size, noise),
                 k2 |-> NoArray, data |-> NoArray]
    /\ UNCHANGED <<genvars, item, seed, runs, host>>

\* PendulumImageDataset.__init__ up to its generator call
ImageInit(SizeSpace, LengthSpace, GapSpace, NoiseSpace) ==
    /\ pc = "idle" /\ ds.kind = "none"
    /\ \E size \in SizeSpace, tl \in LengthSpace, gaps \in GapSpace,
          noise \in NoiseSpace :
          ds' = [kind |-> "PendulumImageDataset", size |-> size,
                 trajectory_length |-> tl,
                 call |-> ImageCall(size, tl, gaps, noise),
                 k2 |-> NoArray, data |-> NoArray]
    /\ UNCHANGED <<genvars, item, seed, runs, host>>

\* the generator call a constructor is about to make
DatasetCall == IF ds.kind = "none" THEN {} ELSE {ds.call}

\* arr[b][t]: the sub-array at the first two indices, an (angle, momentum)
\* pair or an image of shape (3, img_size, img_size)
SubArray(arr, b, t) ==
    IF "zero" \in DOMAIN arr
    THEN [shape |-> <<arr.shape[3], arr.shape[4], arr.shape[5]>>,
          zero |-> {<<z[3], z[4], z[5]>> :
                       z \in {y \in arr.zero : y[1] = b /\ y[2] = t}}]
    ELSE arr.v[<<b, t>>]

\* lines 262-263 and 287-288: the call has returned and k2 and data are
\* stored, data by its first two axes as __getitem__ reads it
StoreDataset ==
    /\ pc = "done" /\ ds.kind # "none"
    /\ IF ret.kind = "batch"
       THEN /\ ds' = [ds EXCEPT
                        !.k2 = ret.k2,
                        !.data = [shape |-> ret.data.shape,
                                  v |-> [c \in Cells(ret.data.shape[1],
                                                     ret.data.shape[2]) |->
                                            SubArray(ret.data, c[1], c[2])]]]
            /\ pc' = "ready"
       ELSE /\ ds' = ds
            /\ pc' = "failed"
    /\ UNCHANGED <<args, rng, k2, q, p, data, idx_final, pxls, ret>>
    /\ UNCHANGED <<item, seed, runs, host>>

\* __getitem__, lines 265-279 and 290-304: i and j are random.randint(0,
\* trajectory_length - 1); data[idx][i] raises IndexError past the stored rows
GetItem ==
    /\ pc = "ready"
    /\ \E idx \in 0 .. (ds.size - 1) :
       \E i, j \in 0 .. (ds.trajectory_length - 1) :
          item' = IF i < ds.data.shape[2] /\ j < ds.data.shape[2]
                  THEN [kind |-> "item", idx |-> idx,
                        first_view |-> ds.data.v[<<idx, i>>],
                        second_view |-> ds.data.v[<<idx, j>>],
                        energy |-> Label(ds, idx)]
                  ELSE [kind |-> "raise", exc |-> "IndexError", idx |-> idx]
    /\ UNCHANGED <<genvars, ds, seed, runs, host>>

-----------------------------------------------------------------------------
(* Specification of the datasets: both wrappers, default image size *)

Sizes == 1 .. MaxBatch
\* a single view time, the generator's default length and one past it
TrajLengths == {1, DefaultTrajSamples, DefaultTrajSamples + 1}
\* the image dataset generates as many samples as it is long
ImageLengths == 1 .. MaxTraj

NextData ==
    \/ NumericalInit(Sizes, TrajLengths, {0, 1})
    \/ ImageInit(Sizes, ImageLengths, BOOLEAN, {0})
    \/ Call(DatasetCall, OneStream)
    \/ SampleNumerical(EnergySome, EnergyEnds, AnglesCoarse, {1})
    \/ SampleImage(EnergySome, EnergyEnds)
    \/ Gaps
    \/ Angles(AnglesCoarse, AnglesCoarse)
    \/ Shuffle
    \/ CheckEnergy
    \/ AddNoise(NoiseOne)
    \/ ReturnNumerical
    \/ Rasterize
    \/ StoreDataset
    \/ GetItem

SpecData == Init /\ [][NextData]_vars

-----------------------------------------------------------------------------
(* Properties of the datasets *)

\* C1 as stated: on a constructed dataset trajectory_length does not exceed
\* the number of samples stored per trajectory, and no get(i) raises
C1_GetSucceeds ==
    /\ pc = "ready" => ds.trajectory_length <= ds.data.shape[2]
    /\ item.kind # "raise"

\* C2: every get(i) that returns, after any sequence of get calls, returns as
\* its label entry i of the energy vector the generator returned at
\* construction, and two successive returns for the same i carry the same label
C2_SameEnergyLabel ==
    /\ [](item.kind = "item" => item.energy = ret.k2.v[item.idx])
    /\ [][(item.kind = "item" /\ item'.kind = "item" /\ item'.idx = item.idx)
            => item'.energy = item.energy]_vars

\* a get on the first of two trajectories with different energies, returning
\* two different views
C2_Witness ==
    /\ item.kind = "item" /\ item.idx = 0
    /\ ds.size = 2
    /\ ret.k2.v[0] # ret.k2.v[1]
    /\ item.energy = ret.k2.v[0]
    /\ item.first_view # item.second_view

-----------------------------------------------------------------------------
(* Seeding: set_deterministic, lines 24-34, called by main at line 725 *)

MainSeed == 42
Seeds == {MainSeed, MainSeed + 1}

\* the operating system's entropy, as far as the model tells it apart
MaxEntropy == 1
Entropy == 0 .. MaxEntropy

\* lines 27-30: random, np.random and torch are seeded
SetDeterministic(SeedSpace) ==
    /\ pc = "idle" /\ seed = None
    /\ \E s \in SeedSpace : seed' = Some(s)
    /\ UNCHANGED <<genvars, ds, item, runs, host>>

\* the draws of a Generator are a function of the entropy it was seeded from:
\* the energy, angle and momentum sign that rng.uniform yields
StreamOf == IF rng = None THEN 0 ELSE rng[1]
StreamEnergy == {EnergyDen - 1 - StreamOf}
StreamAngle == {IF StreamOf % 2 = 0 THEN 90 ELSE 0}
StreamSign == {IF StreamOf % 2 = 0 THEN 1 ELSE -1}

\* the program ends and is run again: the finished run is kept for comparison
Restart ==
    /\ pc = "done" /\ runs = <<>>
    /\ runs' = <<[seed |-> seed, rng |-> rng, args |-> args, ret |-> ret]>>
    /\ pc' = "idle"
    /\ args' = None
    /\ rng' = None
    /\ k2' = NoArray
    /\ q' = NoArray
    /\ p' = NoArray
    /\ data' = NoArray
    /\ idx_final' = <<>>
    /\ pxls' = NoArray
    /\ ret' = [kind |-> "pending"]
    /\ seed' = None
    /\ UNCHANGED <<ds, item, host>>

\* main seeds before anything else; one sample per trajectory, both modes
ArgsDet ==
    IF seed = None THEN {}
    ELSE {[DefaultArgs EXCEPT !.batch_size = b, !.traj_samples = 1,
                              !.image = im] :
             b \in 1 .. MaxBatch, im \in BOOLEAN}

NextDet ==
    \/ SetDeterministic(Seeds)
    \/ Call(ArgsDet, Entropy)
    \/ SampleNumerical(StreamEnergy, StreamEnergy, StreamAngle, StreamSign)
    \/ SampleImage(StreamEnergy, StreamEnergy)
    \/ Gaps
    \/ Angles(StreamAngle, StreamAngle)
    \/ Shuffle
    \/ CheckEnergy
    \/ AddNoise(NoiseOne)
    \/ ReturnNumerical
    \/ Rasterize
    \/ Restart

SpecDet == Init /\ [][NextDet]_vars

-----------------------------------------------------------------------------
(* Properties of the seeding *)

\* two runs whose Generators were seeded from the same entropy return the same
SameStreamSameBatch ==
    (pc = "done" /\ runs # <<>> /\ runs[1].rng = rng /\ runs[1].args = args)
        => runs[1].ret = ret

\* C10 as stated: two runs that call set_deterministic with the same seed and
\* then the generator with the same arguments return the same energies and data
C10_SameSeedSameBatch ==
    (pc = "done" /\ runs # <<>> /\ runs[1].seed = seed /\ runs[1].args = args)
        => runs[1].ret = ret

-----------------------------------------------------------------------------
(* info_nce, lines 102-131, and euclidean_dist, lines 82-84 *)

MaxRows == 3
MaxDim == 3

\* the frame of the other functions is left alone
OffNce == <<genvars, ds, item, seed, runs, walk, fs, sched, optimizer, loop, an>>

\* the validation applied whatever the distance
TooFewDimsAnyDistance(d, distance) == d <= 1

\* line 110: z1.size()[1] <= 1 and distance == "cosine"
TooFewDims(d, distance) == d <= 1 /\ distance = "cosine"

\* torch.arange(0, n)
Arange(n) == [i \in 0 .. (n - 1) |-> i]

\* torch.diagonal(m).repeat(n).reshape((n, n)): the diagonal, n long, is laid
\* out n times and cut into rows, so entry (i, j) is diagonal entry
\* (i*n + j) mod n
DiagRepeat(n, i, j) == (i * n + j) % n

\* lines 114-116: normalize both, z1 @ z2.T: entry (i, j) is the cosine of
\* rows z1[i] and z2[j]
CosineLogits(n) ==
    [c \in (0 .. (n - 1)) \X (0 .. (n - 1)) |->
        [sim |-> "cosine", z1 |-> c[1], z2 |-> c[2]]]

\* lines 82-84: 2 * z1 @ z2.T - DiagRepeat(z1 @ z1.T).T - DiagRepeat(z2 @ z2.T):
\* entry (i, j) is 2*z1[i].z2[j] less the squared norms of rows z1[norm1] and
\* z2[norm2]
EuclideanDist(n) ==
    [c \in (0 .. (n - 1)) \X (0 .. (n - 1)) |->
        [sim |-> "euclidean", z1 |-> c[1], z2 |-> c[2],
         norm1 |-> DiagRepeat(n, c[2], c[1]),
         norm2 |-> DiagRepeat(n, c[1], c[2])]]

\* a call info_nce(z1, z2, temperature, distance) with z1 and z2 of shape
\* (n, d), on a host with or without CUDA
InfoNceCall(RowSpace, DimSpace, DistSpace, TempSpace) ==
    /\ nce.pc = "idle"
    /\ \E n \in RowSpace, d \in DimSpace, dist \in DistSpace, temp \in TempSpace,
          cuda \in BOOLEAN :
          nce' = [pc |-> "validate", n |-> n, d |-> d, distance |-> dist,
                  temperature |-> temp, cuda |-> cuda,
                  logits |-> NoArray, labels |-> NoArray,
                  ret |-> [kind |-> "pending"]]
    /\ UNCHANGED OffNce

\* lines 110-111
InfoNceValidate ==
    /\ nce.pc = "validate"
    /\ nce' = IF TooFewDims(nce.d, nce.distance)
              THEN [nce EXCEPT !.pc = "done",
                               !.ret = [kind |-> "raise", exc |-> "UserWarning"]]
              ELSE [nce EXCEPT !.pc = "logits"]
    /\ UNCHANGED OffNce

\* lines 113-121: the logits, divided by the temperature and moved to the GPU
InfoNceLogits ==
    /\ nce.pc = "logits"
    /\ nce' = [nce EXCEPT
                 !.pc = "loss",
                 !.logits = [over |-> nce.temperature,
                             device |-> IF nce.cuda THEN "cuda" ELSE "cpu",
                             v |-> IF nce.distance = "cosine"
                                   THEN CosineLogits(nce.n)
                                   ELSE EuclideanDist(nce.n)]]
    /\ UNCHANGED OffNce

\* lines 123-131: labels = arange(n); cross_entropy takes logits[i, labels[i]]
\* as the positive of row i
InfoNceLoss ==
    /\ nce.pc = "loss"
    /\ LET labels == Arange(nce.n)
       IN  nce' = [nce EXCEPT
                     !.pc = "done",
                     !.labels = [device |-> IF nce.cuda THEN "cuda" ELSE "cpu",
                                 v |-> labels],
                     !.ret = [kind |-> "loss", over |-> nce.logits.over,
                              positive |-> [i \in 0 .. (nce.n - 1) |->
                                              nce.logits.v[<<i, labels[i]>>]]]]
    /\ UNCHANGED OffNce

Distances == {"cosine", "euclidean"}
\* temperatures in tenths
Temperatures == {1, 10}

NextLoss ==
    \/ InfoNceCall(1 .. MaxRows, 0 .. MaxDim, Distances, Temperatures)
    \/ InfoNceValidate
    \/ InfoNceLogits
    \/ InfoNceLoss

SpecLoss == Init /\ [][NextLoss]_vars

\* C11: info_nce raises its validation error exactly when the distance is
\* cosine and the embedding dimension is at most 1, and then before any logits
\* or loss are computed; with the Euclidean distance it raises for no
\* dimension; and every loss it returns takes, for row i, the similarity of
\* z1[i] and z2[i] as the positive (labels 0 .. n-1)
C11_ValidationAndLabels ==
    /\ (nce.pc = "done" /\ nce.ret.kind = "raise") =>
          /\ nce.ret.exc = "UserWarning"
          /\ nce.distance = "cosine" /\ nce.d <= 1
          /\ nce.logits = NoArray /\ nce.labels = NoArray
    /\ (nce.pc \in {"logits", "loss"} \/ (nce.pc = "done" /\ nce.ret.kind = "loss"))
          => ~(nce.distance = "cosine" /\ nce.d <= 1)
    /\ (nce.pc = "done" /\ nce.distance = "euclidean") => nce.ret.kind = "loss"
    /\ (nce.pc = "done" /\ nce.ret.kind = "loss") =>
          /\ nce.labels.v = [i \in 0 .. (nce.n - 1) |-> i]
          /\ \A i \in 0 .. (nce.n - 1) :
                /\ nce.ret.positive[i].z1 = i
                /\ nce.ret.positive[i].z2 = i

\* a cosine call on embeddings of dimension 1, rejected
C11_Witness ==
    /\ nce.pc = "done" /\ nce.d = 1 /\ nce.n > 1
    /\ nce.distance = "cosine" /\ nce.ret.kind = "raise"

-----------------------------------------------------------------------------
(* most_recent_file, lines 36-47 *)

MaxFiles == 3
MaxTime == 2

OffWalk == <<genvars, ds, item, seed, runs, nce, sched, optimizer, loop, an>>

\* a path below the folder is a stem and an extension; "" is the empty path
Path(stem, ext) == [stem |-> stem, ext |-> ext]
EmptyPath == Path("", "")

\* str.endswith for the extensions in use: the empty suffix ends every path
EndsWith(path, ext) == ext = "" \/ path.ext = ext

\* a directory entry that is no directory: a file, or a symbolic link whose
\* target is gone; mtime is st_mtime in seconds since the epoch
Entries(PathSpace, TimeSpace) ==
    [path : PathSpace, mtime : TimeSpace, link : {"file", "dangling"},
     holds : {None}]

\* the folder as os.walk lists it: every path once
Listings(PathSpace, TimeSpace) ==
    UNION {{l \in [1 .. n -> Entries(PathSpace, TimeSpace)] :
                \A i, j \in 1 .. n : l[i].path = l[j].path => i = j} :
           n \in 0 .. MaxFiles}

\* a call most_recent_file(folder, ext) on a folder in some state;
\* lines 37-38 set the running maximum
MostRecentFileCall(PathSpace, TimeSpace, ExtSpace) ==
    /\ walk.pc = "idle"
    /\ fs' \in Listings(PathSpace, TimeSpace)
    /\ \E ext \in ExtSpace :
          walk' = [pc |-> "walk", ext |-> ext, pos |-> 1, max_time |-> 0,
                   max_file |-> EmptyPath, ret |-> [kind |-> "pending"]]
    /\ UNCHANGED OffWalk

\* lines 39-45, one file: os.stat follows links and raises on a dangling one;
\* a later match must be strictly newer than the running maximum
VisitFile ==
    /\ walk.pc = "walk"
    /\ walk.pos <= Len(fs)
    /\ LET f == fs[walk.pos]
       IN  walk' = IF f.link = "dangling"
                   THEN [walk EXCEPT
                           !.pc = "done",
                           !.ret = [kind |-> "raise", exc |-> "FileNotFoundError"]]
                   ELSE IF f.mtime > walk.max_time /\ EndsWith(f.path, walk.ext)
                   THEN [walk EXCEPT !.pos = @ + 1, !.max_time = f.mtime,
                                     !.max_file = f.path]
                   ELSE [walk EXCEPT !.pos = @ + 1]
    /\ UNCHANGED <<fs, OffWalk>>

\* line 47
MostRecentFileReturn ==
    /\ walk.pc = "walk"
    /\ walk.pos > Len(fs)
    /\ walk' = [walk EXCEPT !.pc = "done",
                            !.ret = [kind |-> "return", path |-> walk.max_file]]
    /\ UNCHANGED <<fs, OffWalk>>

SomePaths == {Path("a", ".pth"), Path("b", ".pth"), Path("c", ".log")}
Times == 0 .. MaxTime

NextFiles ==
    \/ MostRecentFileCall(SomePaths, Times, {"", ".pth"})
    \/ VisitFile
    \/ MostRecentFileReturn

SpecFiles == Init /\ [][NextFiles]_vars

\* the files of the folder whose path ends with the extension asked for
Matching == {i \in DOMAIN fs : EndsWith(fs[i].path, walk.ext)}

\* C12 as stated: the call returns; it returns the empty path exactly when no
\* file of the folder ends with ext; and otherwise the path of a file ending
\* with ext that is at least as new as every other such file
C12_MostRecentMatch ==
    walk.pc = "done" =>
        /\ walk.ret.kind = "return"
        /\ (walk.ret.path = EmptyPath) <=> (Matching = {})
        /\ walk.ret.path # EmptyPath =>
              \E i \in Matching :
                  /\ fs[i].path = walk.ret.path
                  /\ \A j \in Matching : fs[j].mtime <= fs[i].mtime

-----------------------------------------------------------------------------
(* LRScheduler, lines 49-80 *)

\* a learning rate, named by the place of the schedule it is computed for:
\* entry i of the n-point warm-up ramp or of the n-point cosine decay
Lr(phase, i, n) == [phase |-> phase, i |-> i, of |-> n]
\* line 69: self.current_lr = 0
ZeroLr == Lr("zero", 0, 0)
\* the lr the optimizer is constructed with
InitialLr == Lr("initial", 0, 0)

\* line 61: np.linspace(warmup_lr, base_lr, n)
Linspace(n) == [i \in 1 .. n |-> Lr("warmup", i - 1, n)]

\* lines 63-64: final_lr + 0.5*(base_lr - final_lr)*(1 + cos(pi*arange(n)/n))
CosineSchedule(n) == [i \in 1 .. n |-> Lr("cosine", i - 1, n)]

\* line 60
WarmupIter(iter_per_epoch, warmup_epochs) == iter_per_epoch * warmup_epochs

\* the decay one epoch short
DecayIterShort(iter_per_epoch, warmup_epochs, num_epochs) ==
    iter_per_epoch * (num_epochs - warmup_epochs - 1)

\* line 62
DecayIter(iter_per_epoch, warmup_epochs, num_epochs) ==
    iter_per_epoch * (num_epochs - warmup_epochs)

\* __init__, lines 56-69
LRSchedulerInit(iter_per_epoch, warmup_epochs, num_epochs) ==
    [kind |-> "LRScheduler",
     lr_schedule |->
        Linspace(WarmupIter(iter_per_epoch, warmup_epochs))
            \o CosineSchedule(DecayIter(iter_per_epoch, warmup_epochs, num_epochs)),
     iter |-> 0,
     current_lr |-> ZeroLr]

\* step, line 73: self.lr_schedule[self.iter] past the end raises IndexError
StepRaises(s) == s.iter >= Len(s.lr_schedule)

\* step, lines 72-73: every param_group gets the scheduled lr
Relabelled(o, s) ==
    [o EXCEPT !.param_groups = [g \in DOMAIN @ |-> s.lr_schedule[s.iter + 1]]]

\* step, lines 75-76
Stepped(s) ==
    [s EXCEPT !.iter = @ + 1, !.current_lr = s.lr_schedule[s.iter + 1]]

\* get_lr, lines 79-80
GetLr(s) == s.current_lr

-----------------------------------------------------------------------------
(* training_loop, lines 504-646, and supervised_loop, lines 404-501 *)

MaxEpochs == 2
MaxIters == 2
MaxEvery == 2

OffLoop == <<genvars, ds, item, seed, runs, nce, walk, an>>

\* len(train_loader) with drop_last=True
LoaderLen(a) == a.train_size \div a.bsz

\* the path of the checkpoint of epoch e
Pth(e) == Path(ToString(e), ".pth")

\* what torch.save is given: dict(epoch=..., state_dict=module.state_dict()),
\* the parameters being those after so many optimizer steps
Checkpoint(epoch, module, steps) ==
    [epoch |-> epoch, state_dict |-> [of |-> module, steps |-> steps]]

\* torch.save(holds, path): the file is created, or written over
Save(dir, path, holds) ==
    LET entry == [path |-> path, mtime |-> Len(dir) + 1, link |-> "file",
                  holds |-> Some(holds)]
    IN  IF \E i \in DOMAIN dir : dir[i].path = path
        THEN [i \in DOMAIN dir |-> IF dir[i].path = path THEN entry ELSE dir[i]]
        ELSE Append(dir, entry)

\* the names either loop binds before its first epoch, as far as the loop
\* reads them later: training_loop binds h and pred_optimizer under simsiam
\* (lines 528-531, 550-556), supervised_loop binds neither
BoundAtStart(mode, a) ==
    IF mode = "training_loop" /\ a.method = "simsiam"
    THEN {"h", "pred_optimizer"}
    ELSE {}

\* the name the loss of an iteration is bound to, lines 604-606 and 469
LossName(mode) == IF mode = "training_loop" THEN "loss" ELSE "out_loss"

\* the frame of a loop entering its first epoch
Started(mode, a) ==
    [pc |-> "epoch", mode |-> mode, args |-> a, e |-> 1, it |-> 0,
     log |-> "open", bound |-> BoundAtStart(mode, a),
     ret |-> [kind |-> "pending"]]

\* optim.SGD(...), one param group
NewOptimizer == [kind |-> "SGD", param_groups |-> <<InitialLr>>, steps |-> 0]

\* training_loop, lines 505-584: loader, model, optimizer and scheduler are
\* made, the log is opened and the initial checkpoint saved
TrainingLoopCall(ArgSpace) ==
    /\ loop.pc = "idle"
    /\ \E a \in ArgSpace :
          /\ optimizer' = NewOptimizer
          /\ sched' = LRSchedulerInit(LoaderLen(a), a.warmup_epochs, a.epochs)
          /\ fs' = Save(fs, Pth(0), Checkpoint(0, "main_branch", 0))
          /\ loop' = Started("training_loop", a)
    /\ UNCHANGED OffLoop

\* supervised_loop, lines 405-456: the same, the initial checkpoint holding
\* the encoder's parameters
SupervisedLoopCall(ArgSpace) ==
    /\ loop.pc = "idle"
    /\ \E a \in ArgSpace :
          /\ optimizer' = NewOptimizer
          /\ sched' = LRSchedulerInit(LoaderLen(a), a.warmup_epochs, a.epochs)
          /\ fs' = Save(fs, Pth(0), Checkpoint(0, "encoder", 0))
          /\ loop' = Started("supervised_loop", a)
    /\ UNCHANGED OffLoop

\* an exception leaves the loop where it is: the log stays open
Raised(exc) == [loop EXCEPT !.pc = "done", !.ret = [kind |-> "raise", exc |-> exc]]

\* one iteration, lines 594-620 and 462-477: the loss (info_nce validates the
\* embedding dimension), optimizer.step(), lr_scheduler.step(), and
\* pred_optimizer.step() under simsiam (training_loop) or a non-zero
\* dim_pred (supervised_loop)
LoopStep ==
    /\ loop.pc = "epoch"
    /\ loop.e <= loop.args.epochs
    /\ loop.it < LoaderLen(loop.args)
    /\ LET a == loop.args
           distance == IF a.euclidean THEN "euclidean" ELSE "cosine"
           lossRaises == /\ loop.mode = "training_loop"
                         /\ a.method = "infonce"
                         /\ TooFewDims(a.repr_dim, distance)
           predStep == IF loop.mode = "training_loop"
                       THEN a.method = "simsiam"
                       ELSE a.dim_pred # 0
           trained == [optimizer EXCEPT !.steps = @ + 1]
       IN  IF lossRaises
           THEN /\ loop' = Raised("UserWarning")
                /\ UNCHANGED <<optimizer, sched>>
           ELSE IF StepRaises(sched)
           THEN /\ loop' = [Raised("IndexError") EXCEPT
                              !.bound = @ \cup {LossName(loop.mode)}]
                /\ optimizer' = trained
                /\ sched' = sched
           ELSE /\ optimizer' = Relabelled(trained, sched)
                /\ sched' = Stepped(sched)
                /\ loop' = IF predStep /\ "pred_optimizer" \notin loop.bound
                           THEN [Raised("NameError") EXCEPT
                                   !.bound = @ \cup {LossName(loop.mode)}]
                           ELSE [loop EXCEPT
                                   !.it = @ + 1,
                                   !.bound = @ \cup {LossName(loop.mode)}]
    /\ UNCHANGED <<fs, OffLoop>>

\* what the report of an epoch raises, lines 623-631 and 480-488:
\* training_loop's validation calls loss, a tensor; the report line reads the
\* loss of the last iteration, unbound when there was none
ReportRaises ==
    IF loop.args.validation /\ loop.mode = "training_loop"
    THEN IF "loss" \in loop.bound THEN Some("TypeError")
         ELSE Some("UnboundLocalError")
    ELSE IF LossName(loop.mode) \notin loop.bound THEN Some("UnboundLocalError")
    ELSE None

\* the end of an epoch, lines 622-639 and 479-495: report, and every
\* save_every epochs save <e>.pth and log
EpochEnd ==
    /\ loop.pc = "epoch"
    /\ loop.e <= loop.args.epochs
    /\ loop.it = LoaderLen(loop.args)
    /\ LET a == loop.args
           report == loop.e % a.progress_every = 0 \/ loop.e % a.save_every = 0
       IN  IF report /\ ReportRaises # None
           THEN /\ loop' = Raised(ReportRaises[1])
                /\ fs' = fs
           ELSE /\ fs' = IF loop.e % a.save_every = 0
                         THEN Save(fs, Pth(loop.e),
                                   Checkpoint(0, "main_branch", optimizer.steps))
                         ELSE fs
                /\ loop' = [loop EXCEPT !.e = @ + 1, !.it = 0]
    /\ UNCHANGED <<optimizer, sched, OffLoop>>

\* lines 641-646 and 497-501: the log is closed and the encoder returned
LoopReturn ==
    /\ loop.pc = "epoch"
    /\ loop.e > loop.args.epochs
    /\ loop' = [loop EXCEPT !.pc = "done", !.log = "closed",
                            !.ret = [kind |-> "return", value |-> "encoder"]]
    /\ UNCHANGED <<fs, optimizer, sched, OffLoop>>

\* arguments: a few epochs and iterations, batches of two samples
LoopArgs(Methods, DimPreds) ==
    [epochs : 0 .. MaxEpochs, warmup_epochs : 0 .. MaxEpochs,
     train_size : 1 .. (2 * MaxIters + 1), bsz : {2},
     progress_every : 1 .. MaxEvery, save_every : 1 .. MaxEvery,
     validation : BOOLEAN, method : Methods, dim_pred : DimPreds,
     euclidean : BOOLEAN, repr_dim : {1, 2}]

NextTrain ==
    \/ TrainingLoopCall(LoopArgs({"infonce", "simsiam"}, {1}))
    \/ SupervisedLoopCall(LoopArgs({"infonce"}, {0, 1}))
    \/ LoopStep
    \/ EpochEnd
    \/ LoopReturn

SpecTrain == Init /\ [][NextTrain]_vars

\* C14: every checkpoint that training_loop and supervised_loop write holds an
\* epoch counter and a parameter state, and the counter in <e>.pth is e
C14_CheckpointEpoch ==
    \A i \in DOMAIN fs :
        fs[i].holds # None =>
            /\ {"epoch", "state_dict"} \subseteq DOMAIN fs[i].holds[1]
            /\ \A e \in 0 .. MaxEpochs :
                   fs[i].path = Pth(e) => fs[i].holds[1].epoch = e

\* the arguments the schedule is sized for
ScheduleSized(a) == a.epochs >= a.warmup_epochs /\ a.warmup_epochs >= 0

\* C16: get_lr() is 0 before any step; the k-th step() moves iter from k-1 to
\* k, sets the lr of every param group to lr_schedule[k-1] and get_lr()
\* returns it; for num_epochs >= warmup_epochs >= 0 the schedule has
\* iter_per_epoch * num_epochs entries and no step of a run reads past its end
C16_ScheduleStep ==
    /\ [](sched.kind = "LRScheduler" =>
            /\ sched.iter = 0 => GetLr(sched) = ZeroLr
            /\ ScheduleSized(loop.args) =>
                  /\ Len(sched.lr_schedule)
                        = LoaderLen(loop.args) * loop.args.epochs
                  /\ sched.iter <= Len(sched.lr_schedule)
                  /\ loop.ret.kind = "raise" => loop.ret.exc # "IndexError")
    /\ [][(sched.kind = "LRScheduler" /\ sched' # sched) =>
            /\ sched'.iter = sched.iter + 1
            /\ sched'.lr_schedule = sched.lr_schedule
            /\ \A g \in DOMAIN optimizer'.param_groups :
                  optimizer'.param_groups[g] = sched.lr_schedule[sched'.iter]
            /\ GetLr(sched') = sched.lr_schedule[sched'.iter]]_vars

\* a run that returned after stepping through a whole schedule of warm-up and
\* decay entries
C16_Witness ==
    /\ loop.pc = "done"
    /\ loop.ret.kind = "return"
    /\ ScheduleSized(loop.args)
    /\ loop.args.warmup_epochs >= 1
    /\ loop.args.epochs > loop.args.warmup_epochs
    /\ sched.iter >= 2
    /\ sched.iter = Len(sched.lr_schedule)
    /\ GetLr(sched).phase = "cosine"

\* C17: supervised_loop runs to completion for every argument setting: all
\* epochs are executed, the log file is closed and the encoder returned
C17_SupervisedCompletes ==
    (loop.pc = "done" /\ loop.mode = "supervised_loop") =>
        /\ loop.ret.kind = "return"
        /\ loop.ret.value = "encoder"
        /\ loop.log = "closed"
        /\ loop.e = loop.args.epochs + 1

-----------------------------------------------------------------------------
(* analysis_loop, lines 649-677: the checkpoints to load *)

MaxStem == 3

OffAn == <<genvars, ds, item, seed, runs, nce, sched, optimizer, loop>>

\* --load_file recent, the default
Recent == Path("recent", "")

\* os.path.isfile follows links: false for a path that is not there and for a
\* link whose target is gone
IsFile(dir, path) ==
    \E i \in DOMAIN dir : dir[i].path = path /\ dir[i].link = "file"

\* the checkpoint numbers a folder may hold
Stems == (0 - 2) .. MaxStem

\* the folder path_dir holding the checkpoints numbered in have, listed by
\* number and written in that order
Folder(have) ==
    LET all == [i \in 1 .. Cardinality(Stems) |->
                    [path |-> Pth(i - 3), mtime |-> i, link |-> "file",
                     holds |-> None]]
        Held(f) == \E n \in have : f.path = Pth(n)
    IN  SelectSeq(all, Held)

\* lines 650-653 and 661-665: load_files starts as args.load_file; with
\* load_every set the collection starts from an empty list, with "recent"
\* most_recent_file is called, otherwise the one named file is taken
AnalysisLoopCall(EverySpace, MaxSpace, FileSpace) ==
    /\ an.pc = "idle"
    /\ walk.pc = "idle"
    /\ \E have \in SUBSET Stems : fs' = Folder(have)
    /\ \E every \in EverySpace, max \in MaxSpace, file \in FileSpace :
          LET a == [load_every |-> every, load_max |-> max, load_file |-> file]
              frame == [pc |-> "collect", args |-> a, idx |-> 0,
                        load_files |-> <<>>, ret |-> [kind |-> "pending"]]
          IN  IF every # 0 - 1
              THEN /\ an' = frame
                   /\ walk' = walk
              ELSE IF file = Recent
              THEN /\ an' = [frame EXCEPT !.pc = "recent"]
                   /\ walk' = [pc |-> "walk", ext |-> ".pth", pos |-> 1,
                               max_time |-> 0, max_file |-> EmptyPath,
                               ret |-> [kind |-> "pending"]]
              ELSE /\ an' = [frame EXCEPT !.pc = "collected",
                                          !.load_files = <<file>>]
                   /\ walk' = walk
    /\ UNCHANGED OffAn

\* lines 654-660, one pass of the while loop; the loop is followed until it
\* has made one pass more than the folder has files
Collect ==
    /\ an.pc = "collect"
    /\ an.idx <= Len(fs)
    /\ LET a == an.args
           file_to_add == Pth(an.idx * a.load_every)
       IN  an' = IF an.idx * a.load_every <= a.load_max /\ IsFile(fs, file_to_add)
                 THEN [an EXCEPT !.load_files = Append(@, file_to_add),
                                 !.idx = @ + 1]
                 ELSE [an EXCEPT !.pc = "collected"]
    /\ UNCHANGED <<fs, walk, OffAn>>

\* line 662: most_recent_file has come back
RecentFound ==
    /\ an.pc = "recent"
    /\ walk.pc = "done"
    /\ an' = IF walk.ret.kind = "return"
             THEN [an EXCEPT !.pc = "collected",
                             !.load_files = <<walk.ret.path>>]
             ELSE [an EXCEPT !.pc = "done", !.ret = walk.ret]
    /\ UNCHANGED <<fs, walk, OffAn>>

\* lines 667-677: every file of load_files is loaded; torch.load of a path
\* that is no file raises FileNotFoundError
LoadModels ==
    /\ an.pc = "collected"
    /\ an' = IF \A i \in DOMAIN an.load_files : IsFile(fs, an.load_files[i])
             THEN [an EXCEPT !.pc = "loaded"]
             ELSE [an EXCEPT !.pc = "done",
                             !.ret = [kind |-> "raise",
                                      exc |-> "FileNotFoundError"]]
    /\ UNCHANGED <<fs, walk, OffAn>>

NextAnalysis ==
    \/ AnalysisLoopCall((0 - 2) .. MaxEvery, (0 - 1) .. MaxStem,
                        {Recent, Pth(0), Pth(MaxStem + 1)})
    \/ Collect
    \/ VisitFile
    \/ MostRecentFileReturn
    \/ RecentFound
    \/ LoadModels

SpecAnalysis == Init /\ [][NextAnalysis]_vars

\* C15: with load_every other than -1 the collection loop terminates, after
\* at most one pass per file of the folder, and load_files is then
\* <0>.pth, <load_every>.pth, ..., <(m-1)*load_every>.pth: a gap-free prefix
\* of the checkpoints there are, each of them once
C15_GapFreePrefix ==
    (an.pc \in {"collect", "collected", "loaded"}
            /\ an.args.load_every # 0 - 1) =>
        /\ an.idx <= Len(fs)
        /\ \A i, j \in DOMAIN an.load_files :
              an.load_files[i] = an.load_files[j] => i = j
        /\ an.pc # "collect" =>
              /\ Len(an.load_files) = an.idx
              /\ \A k \in DOMAIN an.load_files :
                    /\ an.load_files[k] = Pth((k - 1) * an.args.load_every)
                    /\ IsFile(fs, an.load_files[k])

=============================================================================
